---- MODULE Spec2Model ----
(***************************************************************************)
(* Model of src/server/discord/slashCommands.ts: the slash-command         *)
(* dispatcher (handleSlashCommand), its four handlers and the message      *)
(* chunker (splitMessage).                                                 *)
(*                                                                         *)
(* Strings.  A string is held as its run-length encoding: a sequence of    *)
(* runs [ch, n] with n >= 1 in which neighbouring runs have different      *)
(* characters, so <<[ch |-> "a", n |-> 5000]>> is the string of 5000 a's.  *)
(* length, substring, split and trim below are the JavaScript operations   *)
(* on that representation.  A fixed message of the program (an apology, a  *)
(* confirmation) and a prompt are held as one token: their characters are  *)
(* never inspected by the code.                                            *)
(***************************************************************************)
EXTENDS Integers, Sequences, FiniteSets, TLC

VARIABLES
    users,          \* storage: the User records, in creation order
    conversations,  \* storage: the Conversation records, in creation order
    messages,       \* storage: the Message records, in creation order
    settings,       \* storage: guild id -> <<>> or <<the GuildSettings record>>
    stats,          \* storage: <<>> or <<the BotStats record>>
    pc,             \* per command slot: where its handler stands
    interaction,    \* per command slot: the ChatInputCommandInteraction
    local,          \* per command slot: the handler's local variables
    log,            \* per command slot: calls made for the current command
    start,          \* per command slot: the store as it was on receipt
    ncmds,          \* number of commands received so far
    split           \* the chunker called on its own: input and result

vars == <<users, conversations, messages, settings, stats,
          pc, interaction, local, log, start, ncmds, split>>

storeVars == <<users, conversations, messages, settings, stats>>

-----------------------------------------------------------------------------
(* Bounds of the model *)

MaxCmds == 2

MaxPre == 10

MaxTextLen == 5

MaxLimit == 3

NumSlots == 2

-----------------------------------------------------------------------------
(* Strings *)

Run(c, k) == [ch |-> c, n |-> k]

Str(c, k) == IF k = 0 THEN <<>> ELSE <<Run(c, k)>>

Lit(s) == <<Run(s, 1)>>

NL == Str("\n", 1)

IsWhitespace(c) == c \in {" ", "\n"}

RECURSIVE length(_)
length(t) == IF t = <<>> THEN 0 ELSE Head(t).n + length(Tail(t))

concat(a, b) ==
    IF a = <<>> THEN b
    ELSE IF b = <<>> THEN a
    ELSE IF a[Len(a)].ch = b[1].ch
         THEN SubSeq(a, 1, Len(a) - 1)
              \o <<Run(b[1].ch, a[Len(a)].n + b[1].n)>> \o Tail(b)
         ELSE a \o b

\* String.prototype.substring(from, to): the characters at the 0-based
\* positions from <= i < to.
RECURSIVE substring(_, _, _)
substring(t, from, to) ==
    IF t = <<>> \/ to <= 0 THEN <<>>
    ELSE LET r  == Head(t)
             lo == IF from > 0 THEN from ELSE 0
             hi == IF to < r.n THEN to ELSE r.n
         IN  (IF hi > lo THEN <<Run(r.ch, hi - lo)>> ELSE <<>>)
             \o substring(Tail(t), from - r.n, to - r.n)

\* String.prototype.indexOf(c): 0-based, -1 when c does not occur.
RECURSIVE indexOf(_, _)
indexOf(t, c) ==
    IF t = <<>> THEN -1
    ELSE IF Head(t).ch = c THEN 0
    ELSE LET r == indexOf(Tail(t), c)
         IN  IF r = -1 THEN -1 ELSE Head(t).n + r

\* text.split('\n')
RECURSIVE split_lines(_)
split_lines(t) ==
    LET i == indexOf(t, "\n")
    IN  IF i = -1 THEN <<t>>
        ELSE <<substring(t, 0, i)>>
             \o split_lines(substring(t, i + 1, length(t)))

RECURSIVE trimStart(_)
trimStart(t) ==
    IF t # <<>> /\ IsWhitespace(Head(t).ch) THEN trimStart(Tail(t)) ELSE t

RECURSIVE trimEnd(_)
trimEnd(t) ==
    IF t # <<>> /\ IsWhitespace(t[Len(t)].ch)
    THEN trimEnd(SubSeq(t, 1, Len(t) - 1)) ELSE t

trim(t) == trimEnd(trimStart(t))

\* The encoding of a string given character by character.
RECURSIVE encode(_)
encode(s) == IF s = <<>> THEN <<>> ELSE concat(Str(Head(s), 1), encode(Tail(s)))

-----------------------------------------------------------------------------
(* splitMessage *)

DefaultMaxLength == 1900

\* The same loop cutting one character too far after each piece.
RECURSIVE sliceLineSkipping(_, _, _)
sliceLineSkipping(chunks, remainingLine, maxLength) ==
    IF length(remainingLine) > maxLength
    THEN sliceLineSkipping(Append(chunks, substring(remainingLine, 0, maxLength)),
                           substring(remainingLine, maxLength + 1, length(remainingLine)),
                           maxLength)
    ELSE [chunks |-> chunks, currentChunk |-> remainingLine]

\* while (remainingLine.length > maxLength) { push; cut }  currentChunk = rest
RECURSIVE sliceLine(_, _, _)
sliceLine(chunks, remainingLine, maxLength) ==
    IF length(remainingLine) > maxLength
    THEN sliceLine(Append(chunks, substring(remainingLine, 0, maxLength)),
                   substring(remainingLine, maxLength, length(remainingLine)),
                   maxLength)
    ELSE [chunks |-> chunks, currentChunk |-> remainingLine]

\* if (currentChunk.trim()) chunks.push(currentChunk.trim())
pushTrimmed(chunks, currentChunk) ==
    IF trim(currentChunk) # <<>> THEN Append(chunks, trim(currentChunk))
    ELSE chunks

\* The same body without the flush of the buffer a line does not fit into.
addLineNoFlush(st, line, maxLength) ==
    IF length(st.currentChunk) + length(line) + 1 > maxLength
    THEN IF length(line) > maxLength
         THEN sliceLine(st.chunks, line, maxLength)
         ELSE [chunks |-> st.chunks, currentChunk |-> line]
    ELSE IF length(st.currentChunk) > 0
         THEN [chunks |-> st.chunks,
               currentChunk |-> concat(concat(st.currentChunk, NL), line)]
         ELSE [chunks |-> st.chunks, currentChunk |-> line]

\* The body of the loop over the lines.
addLine(st, line, maxLength) ==
    IF length(st.currentChunk) + length(line) + 1 > maxLength
    THEN LET flushed == pushTrimmed(st.chunks, st.currentChunk)
         IN  IF length(line) > maxLength
             THEN sliceLine(flushed, line, maxLength)
             ELSE [chunks |-> flushed, currentChunk |-> line]
    ELSE IF length(st.currentChunk) > 0
         THEN [chunks |-> st.chunks,
               currentChunk |-> concat(concat(st.currentChunk, NL), line)]
         ELSE [chunks |-> st.chunks, currentChunk |-> line]

RECURSIVE forLines(_, _, _)
forLines(st, lines, maxLength) ==
    IF lines = <<>> THEN st
    ELSE forLines(addLine(st, Head(lines), maxLength), Tail(lines), maxLength)

\* return chunks.length > 0 ? chunks : [text.substring(0, maxLength)]
finishNoFallback(chunks, text, maxLength) == chunks

finish(chunks, text, maxLength) ==
    IF Len(chunks) > 0 THEN chunks ELSE <<substring(text, 0, maxLength)>>

splitMessage(text, maxLength) ==
    IF length(text) <= maxLength THEN <<text>>
    ELSE LET st == forLines([chunks |-> <<>>, currentChunk |-> <<>>],
                            split_lines(text), maxLength)
         IN  finish(pushTrimmed(st.chunks, st.currentChunk), text, maxLength)

-----------------------------------------------------------------------------
(* The inputs a command arrives with *)

Slots == 1..NumSlots

Alice == [id |-> "u1", username |-> "alice"]

Bob == [id |-> "u2", username |-> "bob"]

\* Where a command is issued: a channel of guild g1, or a direct message
\* (interaction.channel and interaction.guild absent).
InC1 == [channel |-> <<"c1">>, guild |-> <<"g1">>]

InC2 == [channel |-> <<"c2">>, guild |-> <<"g1">>]

InDM == [channel |-> <<>>, guild |-> <<>>]

Places == {InC1, InC2, InDM}

GuildIds == {"g1", "DM"}

Modes == {"disabled", "enabled", "required", "activated"}

CommandNames == {"ai", "activate", "deactivate", "aimode", "help"}

Hello == Lit("hello")

\* What the generation backend may return.
Responses == {encode(<<"o", "k">>),
              Str("a", 5000),
              Str("a", 3800),
              concat(Str("a", 1900), Str(" ", 1))}

\* Who asks where: two users in one channel, one user in two channels, and
\* a direct message.
AskContexts == {<<Alice, InC1>>, <<Bob, InC1>>, <<Alice, InC2>>, <<Alice, InDM>>}

\* The required option of a command, which may be missing.
OptionsFor(name) ==
    IF name = "ai" THEN {[prompt |-> <<>>, mode |-> <<>>],
                         [prompt |-> <<Hello>>, mode |-> <<>>]}
    ELSE IF name = "aimode"
         THEN {[prompt |-> <<>>, mode |-> m] : m \in {<<>>} \cup {<<x>> : x \in Modes}}
         ELSE {[prompt |-> <<>>, mode |-> <<>>]}

\* The user and place a command of that name comes with.  Only the ask
\* handler reads interaction.user; the unknown-command branch reads neither.
ContextsFor(name) ==
    IF name = "ai" THEN AskContexts
    ELSE IF name \in {"activate", "deactivate", "aimode"}
         THEN {<<Alice, pl>> : pl \in Places}
         ELSE {<<Alice, InC1>>}

\* interaction.channel?.id || 'DM'
channelIdOf(i) == IF i.channel = <<>> THEN "DM" ELSE i.channel[1]

\* interaction.guild?.id || 'DM'
guildIdOf(i) == IF i.guild = <<>> THEN "DM" ELSE i.guild[1]

-----------------------------------------------------------------------------
(* The fixed messages of the program *)

UnknownCommandMsg ==
    Lit("Unknown command. Available commands: /ai, /activate, /deactivate, /aimode")

GenericApology == Lit("Sorry, I encountered an error while processing your command.")

GenerateApology == Lit("Sorry, I encountered an error while generating a response.")

ActivatedMsg == Lit("AI responses activated in this channel!")

ActivateApology == Lit("Sorry, I encountered an error while activating this channel.")

NoSettingsMsg == Lit("No settings found for this server.")

DeactivatedMsg == Lit("AI responses deactivated in this channel!")

DeactivateApology == Lit("Sorry, I encountered an error while deactivating this channel.")

ModeApology == Lit("Sorry, I encountered an error while updating the AI mode.")

modeDescription(mode) ==
    CASE mode = "disabled" ->
           "The bot will respond to all messages normally (no slash command required)"
      [] mode = "enabled" ->
           "The bot will respond to both regular messages and slash commands"
      [] mode = "required" ->
           "The bot will ONLY respond when summoned via /ai command"
      [] mode = "activated" ->
           "The bot will only respond in channels activated with /activate command"

ModeUpdatedMsg(mode) == Lit(modeDescription(mode))

EphemeralFlag == 64

Ephemeral == <<EphemeralFlag>>

NoFlags == <<>>

HistoryWindow == 10

ReplyLimit == 1900

-----------------------------------------------------------------------------
(* The storage module (../storage): get, create and upsert on the records *)

first(s) == IF s = <<>> THEN <<>> ELSE <<s[1]>>

getUserByDiscordId(id) == first(SelectSeq(users, LAMBDA u : u.discordId = id))

createUser(insert) ==
    Append(users, [id |-> Len(users) + 1, discordId |-> insert.discordId,
                   username |-> insert.username])

getConversationByChannelAndUser(channelId, userId) ==
    first(SelectSeq(conversations,
                    LAMBDA c : c.channelId = channelId /\ c.userId = userId))

createConversation(insert) ==
    Append(conversations, [id |-> Len(conversations) + 1, userId |-> insert.userId,
                           channelId |-> insert.channelId, guildId |-> insert.guildId])

createMessage(insert) ==
    Append(messages, [id |-> Len(messages) + 1,
                      conversationId |-> insert.conversationId,
                      content |-> insert.content, role |-> insert.role])

getMessagesByConversation(conversationId) ==
    SelectSeq(messages, LAMBDA m : m.conversationId = conversationId)

getSettingsByGuildId(guildId) == settings[guildId]

Merge(old, new) ==
    [f \in (DOMAIN old) \cup (DOMAIN new) |->
        IF f \in DOMAIN new THEN new[f] ELSE old[f]]

SettingsDefaults(guildId) ==
    [guildId |-> guildId, prefix |-> "", responseLength |-> "medium",
     personality |-> "helpful", codeFormat |-> TRUE, allowedChannels |-> <<>>,
     channelMode |-> "all", slashCommandMode |-> "enabled",
     activatedChannels |-> <<>>]

createOrUpdateSettings(payload) ==
    LET old == settings[payload.guildId]
    IN  [settings EXCEPT ![payload.guildId] =
            <<Merge(IF old = <<>> THEN SettingsDefaults(payload.guildId) ELSE old[1],
                    payload)>>]

getBotStats == stats

updateBotStats(update) ==
    <<Merge(IF stats = <<>> THEN [totalMessages |-> 0, apiCalls |-> 0] ELSE stats[1],
            update)>>

-----------------------------------------------------------------------------
(* The interaction (discord.js): reply, deferReply, editReply, followUp *)

\* reply and deferReply are refused on an interaction already replied or
\* deferred; editReply and followUp are refused on one neither deferred nor
\* replied.
Accepted(i, op) ==
    IF op \in {"reply", "deferReply"} THEN ~i.replied /\ ~i.deferred
    ELSE i.deferred \/ i.replied

\* The flags after a call: a call that failed leaves them as they were.
AfterSend(i, op, ok) ==
    IF ~ok THEN i
    ELSE IF op = "deferReply" THEN [i EXCEPT !.deferred = TRUE]
    ELSE [i EXCEPT !.replied = TRUE]

-----------------------------------------------------------------------------
(* Bookkeeping shared by the actions *)

Ev(p, op, ok, arg) ==
    [op |-> op, ok |-> ok, arg |-> arg,
     replied |-> interaction[p].replied, deferred |-> interaction[p].deferred]

EmptyLocal ==
    [user |-> <<>>, conversation |-> <<>>, contextMessages |-> <<>>,
     settings |-> <<>>, response |-> <<>>, chunks |-> <<>>, i |-> 0,
     totalMessages |-> 0, apiCalls |-> 0]

Snapshot ==
    [nUsers |-> Len(users), nConversations |-> Len(conversations),
     nMessages |-> Len(messages), settings |-> settings, stats |-> stats]

Goto(p, label) == pc' = [pc EXCEPT ![p] = label]

Record(p, events) == log' = [log EXCEPT ![p] = @ \o events]

\* One call on the interaction: op with content and flags, succeeding (ok)
\* or failing; then the handler goes on at onOk or at onFail.
Send(p, op, content, flags, ok, before, onOk, onFail) ==
    LET sent == ok /\ Accepted(interaction[p], op)
    IN  /\ interaction' = [interaction EXCEPT ![p] = AfterSend(@, op, sent)]
        /\ Record(p, before \o <<Ev(p, op, sent, [content |-> content, flags |-> flags])>>)
        /\ Goto(p, IF sent THEN onOk ELSE onFail)

\* One storage call op with argument arg that changes no record; when it
\* succeeds the handler's locals become loc.
Read(p, op, arg, ok, loc, onOk, onFail) ==
    /\ Record(p, <<Ev(p, op, ok, arg)>>)
    /\ Goto(p, IF ok THEN onOk ELSE onFail)
    /\ local' = [local EXCEPT ![p] = IF ok THEN loc ELSE @]
    /\ UNCHANGED <<storeVars, interaction>>

-----------------------------------------------------------------------------
(* handleSlashCommand: routing *)

\* The first await of the handler the command name selects; a missing
\* required option makes getString throw before it.
Entry(name, options) ==
    CASE name = "ai" -> IF options.prompt = <<>> THEN "outer_catch" ELSE "ai_deferReply"
      [] name = "activate" -> "activate_getSettings"
      [] name = "deactivate" -> "deactivate_getSettings"
      [] name = "aimode" ->
           IF options.mode = <<>> THEN "outer_catch" ELSE "aimode_getSettings"
      [] OTHER -> "unknown_reply"

Receive(p, names) ==
    /\ pc[p] \in {"idle", "done"}
    /\ ncmds < MaxCmds
    /\ \E name \in names :
         \E ctx \in ContextsFor(name), options \in OptionsFor(name) :
            /\ interaction' = [interaction EXCEPT ![p] =
                    [commandName |-> name, user |-> ctx[1], channel |-> ctx[2].channel,
                     guild |-> ctx[2].guild, options |-> options,
                     replied |-> FALSE, deferred |-> FALSE]]
            /\ Goto(p, Entry(name, options))
    /\ local' = [local EXCEPT ![p] = EmptyLocal]
    /\ log' = [log EXCEPT ![p] = <<>>]
    /\ start' = [start EXCEPT ![p] = Snapshot]
    /\ ncmds' = ncmds + 1
    /\ UNCHANGED <<storeVars, split>>

UnknownReply(p) ==
    /\ pc[p] = "unknown_reply"
    /\ \E ok \in BOOLEAN :
         Send(p, "reply", UnknownCommandMsg, Ephemeral, ok, <<>>, "done", "outer_catch")
    /\ UNCHANGED <<storeVars, local, start, ncmds, split>>

\* catch (error) at the dispatcher boundary, with its own try around the reply.
\* (OuterCatchReplyAlways: the same without the test of replied and deferred.)
OuterCatchReplyAlways(p) ==
    /\ pc[p] = "outer_catch"
    /\ \E ok \in BOOLEAN :
         Send(p, "reply", GenericApology, Ephemeral, ok,
              <<Ev(p, "console.error", TRUE, Lit("Error handling slash command:"))>>,
              "done", "done")
    /\ UNCHANGED <<storeVars, local, start, ncmds, split>>

\* The same without the inner try: a failing apology leaves the dispatcher.
OuterCatchNoInnerTry(p) ==
    /\ pc[p] = "outer_catch"
    /\ LET i == interaction[p]
           err == <<Ev(p, "console.error", TRUE, Lit("Error handling slash command:"))>>
       IN  IF ~i.replied /\ ~i.deferred
           THEN \E ok \in BOOLEAN :
                  Send(p, "reply", GenericApology, Ephemeral, ok, err, "done", "thrown")
           ELSE IF i.deferred
           THEN \E ok \in BOOLEAN :
                  Send(p, "editReply", GenericApology, NoFlags, ok, err, "done", "thrown")
           ELSE /\ Record(p, err)
                /\ Goto(p, "done")
                /\ UNCHANGED interaction
    /\ UNCHANGED <<storeVars, local, start, ncmds, split>>

OuterCatch(p) ==
    /\ pc[p] = "outer_catch"
    /\ LET i == interaction[p]
           err == <<Ev(p, "console.error", TRUE, Lit("Error handling slash command:"))>>
       IN  IF ~i.replied /\ ~i.deferred
           THEN \E ok \in BOOLEAN :
                  Send(p, "reply", GenericApology, Ephemeral, ok, err, "done", "done")
           ELSE IF i.deferred
           THEN \E ok \in BOOLEAN :
                  Send(p, "editReply", GenericApology, NoFlags, ok, err, "done", "done")
           ELSE /\ Record(p, err)
                /\ Goto(p, "done")
                /\ UNCHANGED interaction
    /\ UNCHANGED <<storeVars, local, start, ncmds, split>>

-----------------------------------------------------------------------------
(* handleAICommand *)

prompt(p) == interaction[p].options.prompt[1]

\* await interaction.deferReply(), outside the handler's try
AIDeferReply(p) ==
    /\ pc[p] = "ai_deferReply"
    /\ \E ok \in BOOLEAN :
         Send(p, "deferReply", <<>>, NoFlags, ok, <<>>, "ai_getUser", "outer_catch")
    /\ UNCHANGED <<storeVars, local, start, ncmds, split>>

AIGetUser(p) ==
    /\ pc[p] = "ai_getUser"
    /\ LET id == interaction[p].user.id
           user == getUserByDiscordId(id)
       IN  \E ok \in BOOLEAN :
             Read(p, "getUserByDiscordId", id, ok, [local[p] EXCEPT !.user = user],
                  IF user = <<>> THEN "ai_createUser" ELSE "ai_getConversation",
                  "ai_catch")
    /\ UNCHANGED <<start, ncmds, split>>

AICreateUser(p) ==
    /\ pc[p] = "ai_createUser"
    /\ LET insert == [discordId |-> interaction[p].user.id,
                      username |-> interaction[p].user.username]
       IN  \E ok \in BOOLEAN :
             /\ Record(p, <<Ev(p, "createUser", ok, insert)>>)
             /\ Goto(p, IF ok THEN "ai_getConversation" ELSE "ai_catch")
             /\ users' = IF ok THEN createUser(insert) ELSE users
             /\ local' = [local EXCEPT ![p].user =
                             IF ok THEN <<createUser(insert)[Len(users) + 1]>> ELSE @]
    /\ UNCHANGED <<conversations, messages, settings, stats, interaction,
                   start, ncmds, split>>

\* The same looking the conversation up by its channel alone.
AIGetConversationByChannel(p) ==
    /\ pc[p] = "ai_getConversation"
    /\ LET key == [channelId |-> channelIdOf(interaction[p]),
                   userId |-> interaction[p].user.id]
           conversation == first(SelectSeq(conversations,
                                           LAMBDA c : c.channelId = key.channelId))
       IN  \E ok \in BOOLEAN :
             Read(p, "getConversationByChannelAndUser", key, ok,
                  [local[p] EXCEPT !.conversation = conversation],
                  IF conversation = <<>> THEN "ai_createConversation"
                                         ELSE "ai_storeUserMessage",
                  "ai_catch")
    /\ UNCHANGED <<start, ncmds, split>>

AIGetConversation(p) ==
    /\ pc[p] = "ai_getConversation"
    /\ LET key == [channelId |-> channelIdOf(interaction[p]),
                   userId |-> interaction[p].user.id]
           conversation == getConversationByChannelAndUser(key.channelId, key.userId)
       IN  \E ok \in BOOLEAN :
             Read(p, "getConversationByChannelAndUser", key, ok,
                  [local[p] EXCEPT !.conversation = conversation],
                  IF conversation = <<>> THEN "ai_createConversation"
                                         ELSE "ai_storeUserMessage",
                  "ai_catch")
    /\ UNCHANGED <<start, ncmds, split>>

AICreateConversation(p) ==
    /\ pc[p] = "ai_createConversation"
    /\ LET insert == [userId |-> interaction[p].user.id,
                      channelId |-> channelIdOf(interaction[p]),
                      guildId |-> interaction[p].guild]
       IN  \E ok \in BOOLEAN :
             /\ Record(p, <<Ev(p, "createConversation", ok, insert)>>)
             /\ Goto(p, IF ok THEN "ai_storeUserMessage" ELSE "ai_catch")
             /\ conversations' = IF ok THEN createConversation(insert) ELSE conversations
             /\ local' = [local EXCEPT ![p].conversation =
                             IF ok THEN <<createConversation(insert)[Len(conversations) + 1]>>
                             ELSE @]
    /\ UNCHANGED <<users, messages, settings, stats, interaction, start, ncmds, split>>

\* One storage.createMessage call of the handler.
StoreMessage(p, role, content, onOk) ==
    LET insert == [conversationId |-> local[p].conversation[1].id,
                   content |-> content, role |-> role]
    IN  \E ok \in BOOLEAN :
          /\ Record(p, <<Ev(p, "createMessage", ok, insert)>>)
          /\ Goto(p, IF ok THEN onOk ELSE "ai_catch")
          /\ messages' = IF ok THEN createMessage(insert) ELSE messages

AIStoreUserMessage(p) ==
    /\ pc[p] = "ai_storeUserMessage"
    /\ StoreMessage(p, "user", prompt(p), "ai_getMessages")
    /\ UNCHANGED <<users, conversations, settings, stats, interaction, local,
                   start, ncmds, split>>

\* slice(0, 10): the oldest messages instead of the newest
firstOf(s, k) == SubSeq(s, 1, IF Len(s) > k THEN k ELSE Len(s))

\* recentMessages.slice(-10)
lastOf(s, k) == SubSeq(s, IF Len(s) > k THEN Len(s) - k + 1 ELSE 1, Len(s))

\* The history read before the prompt is stored: the prompt is not part of it.
AIGetMessagesBeforePrompt(p) ==
    /\ pc[p] = "ai_getMessages"
    /\ LET id == local[p].conversation[1].id
           recentMessages == getMessagesByConversation(id)
       IN  \E ok \in BOOLEAN :
             Read(p, "getMessagesByConversation", id, ok,
                  [local[p] EXCEPT !.contextMessages =
                      lastOf(SubSeq(recentMessages, 1, Len(recentMessages) - 1),
                             HistoryWindow)],
                  "ai_getSettings", "ai_catch")
    /\ UNCHANGED <<start, ncmds, split>>

AIGetMessages(p) ==
    /\ pc[p] = "ai_getMessages"
    /\ LET id == local[p].conversation[1].id
           recentMessages == getMessagesByConversation(id)
       IN  \E ok \in BOOLEAN :
             Read(p, "getMessagesByConversation", id, ok,
                  [local[p] EXCEPT !.contextMessages = lastOf(recentMessages, HistoryWindow)],
                  "ai_getSettings", "ai_catch")
    /\ UNCHANGED <<start, ncmds, split>>

AIGetSettings(p) ==
    /\ pc[p] = "ai_getSettings"
    /\ LET guildId == guildIdOf(interaction[p])
       IN  \E ok \in BOOLEAN :
             Read(p, "getSettingsByGuildId", guildId, ok,
                  [local[p] EXCEPT !.settings = getSettingsByGuildId(guildId)],
                  "ai_generate", "ai_catch")
    /\ UNCHANGED <<start, ncmds, split>>

\* settings?.field
optional(s, field) == IF s = <<>> THEN <<>> ELSE <<s[1][field]>>

\* The same with a backend failure answered by the apology as the response.
AIGenerateApologyAsResponse(p) ==
    /\ pc[p] = "ai_generate"
    /\ LET call == [prompt |-> prompt(p),
                    history |-> local[p].contextMessages,
                    personality |-> optional(local[p].settings, "personality"),
                    responseLength |-> optional(local[p].settings, "responseLength")]
       IN  \/ /\ Record(p, <<Ev(p, "generateAIResponse", FALSE, call)>>)
              /\ Goto(p, "ai_storeResponse")
              /\ local' = [local EXCEPT ![p].response = GenerateApology]
           \/ \E response \in Responses :
                /\ Record(p, <<Ev(p, "generateAIResponse", TRUE, call)>>)
                /\ Goto(p, "ai_storeResponse")
                /\ local' = [local EXCEPT ![p].response = response]
    /\ UNCHANGED <<storeVars, interaction, start, ncmds, split>>

\* await generateAIResponse(prompt, contextMessages, personality, responseLength):
\* the backend returns some text or fails.
AIGenerate(p) ==
    /\ pc[p] = "ai_generate"
    /\ LET call == [prompt |-> prompt(p),
                    history |-> local[p].contextMessages,
                    personality |-> optional(local[p].settings, "personality"),
                    responseLength |-> optional(local[p].settings, "responseLength")]
       IN  \/ /\ Record(p, <<Ev(p, "generateAIResponse", FALSE, call)>>)
              /\ Goto(p, "ai_catch")
              /\ UNCHANGED local
           \/ \E response \in Responses :
                /\ Record(p, <<Ev(p, "generateAIResponse", TRUE, call)>>)
                /\ Goto(p, "ai_storeResponse")
                /\ local' = [local EXCEPT ![p].response = response]
    /\ UNCHANGED <<storeVars, interaction, start, ncmds, split>>

\* The same with the stats update moved before the delivery.
AIStoreResponseThenStats(p) ==
    /\ pc[p] = "ai_storeResponse"
    /\ StoreMessage(p, "assistant", local[p].response, "ai_readTotalMessages")
    /\ UNCHANGED <<users, conversations, settings, stats, interaction, local,
                   start, ncmds, split>>

AIStoreResponse(p) ==
    /\ pc[p] = "ai_storeResponse"
    /\ StoreMessage(p, "assistant", local[p].response, "ai_editReply")
    /\ UNCHANGED <<users, conversations, settings, stats, interaction, local,
                   start, ncmds, split>>

\* if (response.length <= 1900) editReply(response)
\* else { chunks = splitMessage(response); editReply(chunks[0]); ... }
AIEditReply(p) ==
    /\ pc[p] = "ai_editReply"
    /\ LET response == local[p].response
           chunks == IF length(response) <= ReplyLimit THEN <<response>>
                     ELSE splitMessage(response, DefaultMaxLength)
       IN  /\ \E ok \in BOOLEAN :
                Send(p, "editReply", chunks[1], NoFlags, ok, <<>>,
                     IF Len(chunks) > 1 THEN "ai_followUp" ELSE "ai_readTotalMessages",
                     "ai_catch")
           /\ local' = [local EXCEPT ![p].chunks = chunks, ![p].i = 1]
    /\ UNCHANGED <<storeVars, start, ncmds, split>>

\* for (let i = 1; i < chunks.length; i++) await interaction.followUp(chunks[i])
AIFollowUp(p) ==
    /\ pc[p] = "ai_followUp"
    /\ LET i == local[p].i
       IN  /\ \E ok \in BOOLEAN :
                Send(p, "followUp", local[p].chunks[i + 1], NoFlags, ok, <<>>,
                     IF i + 1 < Len(local[p].chunks) THEN "ai_followUp"
                                                     ELSE "ai_readTotalMessages",
                     "ai_catch")
           /\ local' = [local EXCEPT ![p].i = i + 1]
    /\ UNCHANGED <<storeVars, start, ncmds, split>>

\* (await storage.getBotStats())?.field ?? 0 + 1 : the sum 0 + 1 is the
\* right operand of ??, so a stored value is taken as it is.
statsField(s, field) == IF s = <<>> THEN 0 + 1 ELSE s[1][field]

AIReadTotalMessages(p) ==
    /\ pc[p] = "ai_readTotalMessages"
    /\ \E ok \in BOOLEAN :
         Read(p, "getBotStats", "totalMessages", ok,
              [local[p] EXCEPT !.totalMessages = statsField(getBotStats, "totalMessages")],
              "ai_readApiCalls", "ai_catch")
    /\ UNCHANGED <<start, ncmds, split>>

AIReadApiCalls(p) ==
    /\ pc[p] = "ai_readApiCalls"
    /\ \E ok \in BOOLEAN :
         Read(p, "getBotStats", "apiCalls", ok,
              [local[p] EXCEPT !.apiCalls = statsField(getBotStats, "apiCalls")],
              "ai_updateStats", "ai_catch")
    /\ UNCHANGED <<start, ncmds, split>>

AIUpdateStats(p) ==
    /\ pc[p] = "ai_updateStats"
    /\ LET update == [totalMessages |-> local[p].totalMessages,
                      apiCalls |-> local[p].apiCalls]
       IN  \E ok \in BOOLEAN :
             /\ Record(p, <<Ev(p, "updateBotStats", ok, update)>>)
             /\ Goto(p, IF ok THEN "done" ELSE "ai_catch")
             /\ stats' = IF ok THEN updateBotStats(update) ELSE stats
    /\ UNCHANGED <<users, conversations, messages, settings, interaction, local,
                   start, ncmds, split>>

\* catch (error) of the handler: whatever failed inside its try
AICatchRethrow(p) ==
    /\ pc[p] = "ai_catch"
    /\ Record(p, <<Ev(p, "console.error", TRUE, Lit("Error generating AI response:"))>>)
    /\ Goto(p, "outer_catch")
    /\ UNCHANGED <<storeVars, interaction, local, start, ncmds, split>>

AICatch(p) ==
    /\ pc[p] = "ai_catch"
    /\ \E ok \in BOOLEAN :
         Send(p, "editReply", GenerateApology, NoFlags, ok,
              <<Ev(p, "console.error", TRUE, Lit("Error generating AI response:"))>>,
              "done", "outer_catch")
    /\ UNCHANGED <<storeVars, local, start, ncmds, split>>

-----------------------------------------------------------------------------
(* handleActivateCommand, handleDeactivateCommand, handleAIModeCommand *)

\* await storage.getSettingsByGuildId(guildId), first call of the three handlers
GetSettings(p, onSome, onNone, onFail) ==
    LET guildId == guildIdOf(interaction[p])
        found == getSettingsByGuildId(guildId)
    IN  \E ok \in BOOLEAN :
          Read(p, "getSettingsByGuildId", guildId, ok,
               [local[p] EXCEPT !.settings = found],
               IF found = <<>> THEN onNone ELSE onSome, onFail)

\* The same write keeping the channels persisted since the read.
SaveSettingsKeepingChannels(p, payload, onOk, onFail) ==
    LET old == settings[payload.guildId]
        kept == IF old = <<>> THEN <<>>
                ELSE SelectSeq(old[1].activatedChannels,
                               LAMBDA c : ~\E k \in 1..Len(payload.activatedChannels) :
                                              payload.activatedChannels[k] = c)
        merged == [payload EXCEPT !.activatedChannels = kept \o @]
    IN  \E ok \in BOOLEAN :
          /\ Record(p, <<Ev(p, "createOrUpdateSettings", ok, payload)>>)
          /\ Goto(p, IF ok THEN onOk ELSE onFail)
          /\ settings' = IF ok THEN createOrUpdateSettings(merged) ELSE settings
          /\ local' = [local EXCEPT ![p].settings =
                          IF ok THEN createOrUpdateSettings(merged)[payload.guildId] ELSE @]

\* settings = await storage.createOrUpdateSettings(payload)
SaveSettings(p, payload, onOk, onFail) ==
    \E ok \in BOOLEAN :
      /\ Record(p, <<Ev(p, "createOrUpdateSettings", ok, payload)>>)
      /\ Goto(p, IF ok THEN onOk ELSE onFail)
      /\ settings' = IF ok THEN createOrUpdateSettings(payload) ELSE settings
      /\ local' = [local EXCEPT ![p].settings =
                      IF ok THEN createOrUpdateSettings(payload)[payload.guildId] ELSE @]

\* The same test looking at the first entry only.
includesFirst(s, x) == s # <<>> /\ s[1] = x

includes(s, x) == \E k \in 1..Len(s) : s[k] = x

\* The record a handler writes when the guild has no settings yet.
NewSettings(guildId, mode, activatedChannels) ==
    [guildId |-> guildId, prefix |-> "", responseLength |-> "medium",
     personality |-> "helpful", codeFormat |-> TRUE, allowedChannels |-> <<>>,
     channelMode |-> "all", slashCommandMode |-> mode,
     activatedChannels |-> activatedChannels]

ActivateGetSettings(p) ==
    /\ pc[p] = "activate_getSettings"
    /\ GetSettings(p, "activate_save", "activate_save", "activate_catch")
    /\ UNCHANGED <<start, ncmds, split>>

ActivateSave(p) ==
    /\ pc[p] = "activate_save"
    /\ LET channelId == channelIdOf(interaction[p])
           found == local[p].settings
           payload ==
             IF found = <<>>
             THEN NewSettings(guildIdOf(interaction[p]), "activated", <<channelId>>)
             ELSE LET activatedChannels == found[1].activatedChannels
                  IN  Merge(found[1],
                            [activatedChannels |->
                                IF includes(activatedChannels, channelId)
                                THEN activatedChannels
                                ELSE Append(activatedChannels, channelId),
                             slashCommandMode |-> "activated"])
       IN  SaveSettings(p, payload, "activate_reply", "activate_catch")
    /\ UNCHANGED <<users, conversations, messages, stats, interaction,
                   start, ncmds, split>>

ActivateReply(p) ==
    /\ pc[p] = "activate_reply"
    /\ \E ok \in BOOLEAN :
         Send(p, "reply", ActivatedMsg, Ephemeral, ok, <<>>, "done", "activate_catch")
    /\ UNCHANGED <<storeVars, local, start, ncmds, split>>

ActivateCatch(p) ==
    /\ pc[p] = "activate_catch"
    /\ \E ok \in BOOLEAN :
         Send(p, "reply", ActivateApology, Ephemeral, ok,
              <<Ev(p, "console.error", TRUE, Lit("Error activating channel:"))>>,
              "done", "outer_catch")
    /\ UNCHANGED <<storeVars, local, start, ncmds, split>>

\* The same with a guild without settings sent on to the creation of a record.
DeactivateGetSettingsCreating(p) ==
    /\ pc[p] = "deactivate_getSettings"
    /\ GetSettings(p, "deactivate_save", "activate_save", "deactivate_catch")
    /\ UNCHANGED <<start, ncmds, split>>

DeactivateGetSettings(p) ==
    /\ pc[p] = "deactivate_getSettings"
    /\ GetSettings(p, "deactivate_save", "deactivate_replyNone", "deactivate_catch")
    /\ UNCHANGED <<start, ncmds, split>>

DeactivateReplyNone(p) ==
    /\ pc[p] = "deactivate_replyNone"
    /\ \E ok \in BOOLEAN :
         Send(p, "reply", NoSettingsMsg, Ephemeral, ok, <<>>, "done", "deactivate_catch")
    /\ UNCHANGED <<storeVars, local, start, ncmds, split>>

DeactivateSave(p) ==
    /\ pc[p] = "deactivate_save"
    /\ LET channelId == channelIdOf(interaction[p])
           found == local[p].settings
           payload == Merge(found[1],
                            [activatedChannels |->
                                SelectSeq(found[1].activatedChannels,
                                          LAMBDA id : id # channelId)])
       IN  SaveSettings(p, payload, "deactivate_reply", "deactivate_catch")
    /\ UNCHANGED <<users, conversations, messages, stats, interaction,
                   start, ncmds, split>>

DeactivateReply(p) ==
    /\ pc[p] = "deactivate_reply"
    /\ \E ok \in BOOLEAN :
         Send(p, "reply", DeactivatedMsg, Ephemeral, ok, <<>>, "done", "deactivate_catch")
    /\ UNCHANGED <<storeVars, local, start, ncmds, split>>

DeactivateCatch(p) ==
    /\ pc[p] = "deactivate_catch"
    /\ \E ok \in BOOLEAN :
         Send(p, "reply", DeactivateApology, Ephemeral, ok,
              <<Ev(p, "console.error", TRUE, Lit("Error deactivating channel:"))>>,
              "done", "outer_catch")
    /\ UNCHANGED <<storeVars, local, start, ncmds, split>>

mode(p) == interaction[p].options.mode[1]

AIModeGetSettings(p) ==
    /\ pc[p] = "aimode_getSettings"
    /\ GetSettings(p, "aimode_save", "aimode_save", "aimode_catch")
    /\ UNCHANGED <<start, ncmds, split>>

\* The same writing the record of a new guild whether or not one exists.
AIModeSaveFresh(p) ==
    /\ pc[p] = "aimode_save"
    /\ SaveSettings(p, NewSettings(guildIdOf(interaction[p]), mode(p), <<>>),
                    "aimode_reply", "aimode_catch")
    /\ UNCHANGED <<users, conversations, messages, stats, interaction,
                   start, ncmds, split>>

AIModeSave(p) ==
    /\ pc[p] = "aimode_save"
    /\ LET found == local[p].settings
           payload ==
             IF found = <<>>
             THEN NewSettings(guildIdOf(interaction[p]), mode(p), <<>>)
             ELSE Merge(found[1], [slashCommandMode |-> mode(p)])
       IN  SaveSettings(p, payload, "aimode_reply", "aimode_catch")
    /\ UNCHANGED <<users, conversations, messages, stats, interaction,
                   start, ncmds, split>>

\* The same reply without the ephemeral flag.
AIModeReplyPublic(p) ==
    /\ pc[p] = "aimode_reply"
    /\ \E ok \in BOOLEAN :
         Send(p, "reply", ModeUpdatedMsg(mode(p)), NoFlags, ok, <<>>,
              "done", "aimode_catch")
    /\ UNCHANGED <<storeVars, local, start, ncmds, split>>

AIModeReply(p) ==
    /\ pc[p] = "aimode_reply"
    /\ \E ok \in BOOLEAN :
         Send(p, "reply", ModeUpdatedMsg(mode(p)), Ephemeral, ok, <<>>,
              "done", "aimode_catch")
    /\ UNCHANGED <<storeVars, local, start, ncmds, split>>

AIModeCatch(p) ==
    /\ pc[p] = "aimode_catch"
    /\ \E ok \in BOOLEAN :
         Send(p, "reply", ModeApology, Ephemeral, ok,
              <<Ev(p, "console.error", TRUE, Lit("Error updating AI mode:"))>>,
              "done", "outer_catch")
    /\ UNCHANGED <<storeVars, local, start, ncmds, split>>

-----------------------------------------------------------------------------
(* The chunker called on its own *)

Alphabet == {"a", "b", " ", "\n"}

Texts == UNION {[1..k -> Alphabet] : k \in 0..MaxTextLen}

NoSplit == [text |-> <<>>, maxLength |-> DefaultMaxLength, called |-> FALSE, chunks |-> <<>>]

RunSplit ==
    /\ ~split.called
    /\ split' = [split EXCEPT !.called = TRUE,
                              !.chunks = splitMessage(split.text, split.maxLength)]
    /\ UNCHANGED <<storeVars, pc, interaction, local, log, start, ncmds>>

-----------------------------------------------------------------------------
(* Specifications *)

EmptyInteraction ==
    [commandName |-> "", user |-> [id |-> "", username |-> ""], channel |-> <<>>,
     guild |-> <<>>, options |-> [prompt |-> <<>>, mode |-> <<>>],
     replied |-> FALSE, deferred |-> FALSE]

InitSlots ==
    /\ pc = [p \in Slots |-> "idle"]
    /\ interaction = [p \in Slots |-> EmptyInteraction]
    /\ local = [p \in Slots |-> EmptyLocal]
    /\ log = [p \in Slots |-> <<>>]
    /\ ncmds = 0

InitStore ==
    /\ users = <<>>
    /\ conversations = <<>>
    /\ messages = <<>>
    /\ settings = [g \in GuildIds |-> <<>>]
    /\ stats = <<>>

\* The process starts on an empty store; commands are handled one at a time.
Init ==
    /\ InitStore
    /\ InitSlots
    /\ start = [p \in Slots |-> Snapshot]
    /\ split = NoSplit

AIStep(p) ==
    \/ AIDeferReply(p)
    \/ AIGetUser(p)
    \/ AICreateUser(p)
    \/ AIGetConversation(p)
    \/ AICreateConversation(p)
    \/ AIStoreUserMessage(p)
    \/ AIGetMessages(p)
    \/ AIGetSettings(p)
    \/ AIGenerate(p)
    \/ AIStoreResponse(p)
    \/ AIEditReply(p)
    \/ AIFollowUp(p)
    \/ AIReadTotalMessages(p)
    \/ AIReadApiCalls(p)
    \/ AIUpdateStats(p)
    \/ AICatch(p)
    \/ OuterCatch(p)

SettingsStep(p) ==
    \/ UnknownReply(p)
    \/ ActivateGetSettings(p)
    \/ ActivateSave(p)
    \/ ActivateReply(p)
    \/ ActivateCatch(p)
    \/ DeactivateGetSettings(p)
    \/ DeactivateReplyNone(p)
    \/ DeactivateSave(p)
    \/ DeactivateReply(p)
    \/ DeactivateCatch(p)
    \/ AIModeGetSettings(p)
    \/ AIModeSave(p)
    \/ AIModeReply(p)
    \/ AIModeCatch(p)

Next ==
    \/ Receive(1, CommandNames)
    \/ AIStep(1)
    \/ SettingsStep(1)

Spec == Init /\ [][Next]_vars

\* The chunker alone: every text of at most MaxTextLen characters and every
\* limit from 1 to MaxLimit.
SplitInit ==
    /\ InitStore
    /\ InitSlots
    /\ start = [p \in Slots |-> Snapshot]
    /\ \E s \in Texts, l \in 1..MaxLimit :
         split = [text |-> encode(s), maxLength |-> l, called |-> FALSE, chunks |-> <<>>]

SplitNext == RunSplit

SplitSpec == SplitInit /\ [][SplitNext]_vars

\* The store outlives the process.  Ask commands alone, starting on an empty
\* store or on the store left by earlier ask commands of alice in channel
\* c1: k messages, prompt and answer in turn (the last prompt unanswered when
\* k is odd), and the stats record those commands wrote.
PreMessages(k) ==
    [n \in 1..k |-> [id |-> n, conversationId |-> 1,
                     content |-> IF n % 2 = 1 THEN Hello ELSE encode(<<"o", "k">>),
                     role |-> IF n % 2 = 1 THEN "user" ELSE "assistant"]]

AskInit ==
    /\ \E k \in {0, MaxPre} :
         /\ users = IF k = 0 THEN <<>>
                    ELSE <<[id |-> 1, discordId |-> "u1", username |-> "alice"]>>
         /\ conversations = IF k = 0 THEN <<>>
                            ELSE <<[id |-> 1, userId |-> "u1", channelId |-> "c1",
                                    guildId |-> <<"g1">>]>>
         /\ messages = PreMessages(k)
         /\ stats = IF k < 2 THEN <<>> ELSE <<[totalMessages |-> 1, apiCalls |-> 1]>>
    /\ settings = [g \in GuildIds |-> <<>>]
    /\ InitSlots
    /\ start = [p \in Slots |-> Snapshot]
    /\ split = NoSplit

AskNext ==
    \/ Receive(1, {"ai"})
    \/ AIStep(1)

AskSpec == AskInit /\ [][AskNext]_vars

\* The settings commands alone, one at a time, on a store in which guild g1
\* has no settings yet or has a record whose every field was set by hand.
CustomSettings ==
    [guildId |-> "g1", prefix |-> "!", responseLength |-> "long",
     personality |-> "sarcastic", codeFormat |-> FALSE,
     allowedChannels |-> <<"c1">>, channelMode |-> "whitelist",
     slashCommandMode |-> "enabled", activatedChannels |-> <<"c2">>]

SettingsInit ==
    /\ users = <<>>
    /\ conversations = <<>>
    /\ messages = <<>>
    /\ stats = <<>>
    /\ \E pre \in {<<>>, <<CustomSettings>>} :
         settings = [g \in GuildIds |-> IF g = "g1" THEN pre ELSE <<>>]
    /\ InitSlots
    /\ start = [p \in Slots |-> Snapshot]
    /\ split = NoSplit

SettingsNext ==
    \/ Receive(1, CommandNames \ {"ai"})
    \/ SettingsStep(1)
    \/ OuterCatch(1)

SettingsSpec == SettingsInit /\ [][SettingsNext]_vars

\* Commands in flight together: each command slot holds one invocation of
\* handleSlashCommand, every await is one step, and the steps of the slots
\* interleave in any order.  Ask commands on an empty store.
\* The commands come from alice, in channel c1 or c2, with a prompt, and the
\* backend answers with 3800 a's (one edit and one follow-up).
ConcurrentAskInputs ==
    \A p \in Slots :
        /\ pc[p] # "idle" =>
              /\ interaction[p].user = Alice
              /\ interaction[p].channel \in {InC1.channel, InC2.channel}
              /\ interaction[p].options.prompt # <<>>
        /\ local[p].response \in {<<>>, Str("a", 3800)}

\* A command that arrives is handled in the lowest slot that is free.
LowestFree(p) == \A q \in 1..(p - 1) : pc[q] \notin {"idle", "done"}

ConcurrentReceive(p) ==
    LowestFree(p) /\ Receive(p, {"ai"}) /\ ConcurrentAskInputs'

ConcurrentGenerate(p) == AIGenerate(p) /\ ConcurrentAskInputs'

ConcurrentAskNext ==
    \E p \in Slots :
        \/ ConcurrentReceive(p)
        \/ AIDeferReply(p)
        \/ AIGetUser(p)
        \/ AICreateUser(p)
        \/ AIGetConversation(p)
        \/ AICreateConversation(p)
        \/ AIStoreUserMessage(p)
        \/ AIGetMessages(p)
        \/ AIGetSettings(p)
        \/ ConcurrentGenerate(p)
        \/ AIStoreResponse(p)
        \/ AIEditReply(p)
        \/ AIFollowUp(p)
        \/ AIReadTotalMessages(p)
        \/ AIReadApiCalls(p)
        \/ AIUpdateStats(p)
        \/ AICatch(p)
        \/ OuterCatch(p)

ConcurrentAskSpec == Init /\ [][ConcurrentAskNext]_vars

\* Settings commands in flight together, on the stores of SettingsInit.
\* The commands are the two that write a record whatever they find, issued
\* in guild g1: activate in channel c1 or c2, aimode with mode 'required'
\* in c1.
ConcurrentSettingsInputs ==
    \A p \in Slots :
        pc[p] # "idle" =>
            LET i == interaction[p]
            IN  /\ i.guild = <<"g1">>
                /\ i.commandName = "aimode" =>
                      (i.channel = <<"c1">> /\ i.options.mode = <<"required">>)

ConcurrentSettingsReceive(p) ==
    /\ LowestFree(p)
    /\ Receive(p, {"activate", "aimode"})
    /\ ConcurrentSettingsInputs'

ConcurrentSettingsNext ==
    \E p \in Slots :
        \/ ConcurrentSettingsReceive(p)
        \/ ActivateGetSettings(p)
        \/ ActivateSave(p)
        \/ ActivateReply(p)
        \/ ActivateCatch(p)
        \/ AIModeGetSettings(p)
        \/ AIModeSave(p)
        \/ AIModeReply(p)
        \/ AIModeCatch(p)
        \/ OuterCatch(p)

ConcurrentSettingsSpec == SettingsInit /\ [][ConcurrentSettingsNext]_vars

-----------------------------------------------------------------------------
(* What the claims speak of, read off the log of the command in slot 1 *)

StoreOps == {"getUserByDiscordId", "createUser", "getConversationByChannelAndUser",
             "createConversation", "createMessage", "getMessagesByConversation",
             "getSettingsByGuildId", "createOrUpdateSettings", "getBotStats",
             "updateBotStats"}

SendOps == {"reply", "deferReply", "editReply", "followUp"}

Calls == log[1]

Has(P(_)) == \E k \in 1..Len(Calls) : P(Calls[k])

StoreFailed == Has(LAMBDA e : e.op \in StoreOps /\ ~e.ok)

BackendFailed == Has(LAMBDA e : e.op = "generateAIResponse" /\ ~e.ok)

SendFailed == Has(LAMBDA e : e.op \in SendOps /\ ~e.ok)

Logged(text) == Has(LAMBDA e : e.op = "console.error" /\ e.arg = text)

OuterCatchRan == Logged(Lit("Error handling slash command:"))

\* The sends that got through, in order.
Delivered == SelectSeq(Calls, LAMBDA e : e.op \in {"reply", "editReply", "followUp"} /\ e.ok)

\* What the user sees as the primary reply: the last reply or edit that got through.
Shown == SelectSeq(Calls, LAMBDA e : e.op \in {"reply", "editReply"} /\ e.ok)

ShowsLast(op, content) ==
    /\ Shown # <<>>
    /\ Shown[Len(Shown)].op = op
    /\ Shown[Len(Shown)].arg.content = content

Command == interaction[1].commandName

Finished == pc[1] = "done"

-----------------------------------------------------------------------------
(* Claims *)

\* C1: whatever the command name and whatever fails (store, backend,
\* transport), no reply() is issued on an interaction already replied or
\* deferred, and no editReply() or followUp() on one that was not deferred.
C1_ReplyDiscipline ==
    \A k \in 1..Len(Calls) :
        LET e == Calls[k]
        IN  /\ e.op = "reply" => ~e.replied /\ ~e.deferred
            /\ e.op \in {"editReply", "followUp"} => e.deferred

\* A command whose handler failed after deferring, whose own apology failed
\* too, and which the outer catch then answered by an edit.
C1_Witness ==
    /\ Finished
    /\ \E j, k \in 1..Len(Calls) :
         /\ j < k
         /\ Calls[j].op = "editReply" /\ ~Calls[j].ok
         /\ Calls[k].op = "editReply" /\ Calls[k].ok
         /\ Calls[k].arg.content = GenericApology

\* The most calls one command can make: the sixteen calls of an ask that has
\* the longest answer to deliver, less the two follow-ups counted apart, and
\* the two calls of each of the two catch blocks.
ChunkCounts == {Len(splitMessage(r, DefaultMaxLength)) : r \in Responses}

MostChunks == CHOOSE m \in ChunkCounts : \A n \in ChunkCounts : n <= m

CallLimit == 14 + (MostChunks - 1) + 4

\* The places a handler can stand at; each is the guard of one action, which
\* makes its call with either outcome, so a command standing there can go on.
HandlerLabels ==
    {"ai_deferReply", "ai_getUser", "ai_createUser", "ai_getConversation",
     "ai_createConversation", "ai_storeUserMessage", "ai_getMessages",
     "ai_getSettings", "ai_generate", "ai_storeResponse", "ai_editReply",
     "ai_followUp", "ai_readTotalMessages", "ai_readApiCalls", "ai_updateStats",
     "ai_catch", "outer_catch", "unknown_reply",
     "activate_getSettings", "activate_save", "activate_reply", "activate_catch",
     "deactivate_getSettings", "deactivate_replyNone", "deactivate_save",
     "deactivate_reply", "deactivate_catch",
     "aimode_getSettings", "aimode_save", "aimode_reply", "aimode_catch"}

\* C2: handleSlashCommand never lets an exception out and always comes to
\* its end: no command ever stands at "thrown" (an error that left the
\* dispatcher); a command that has not ended stands where a handler can go
\* on; and a command makes at most CallLimit calls (every step makes at
\* least one), so it ends.
C2_NeverPropagates ==
    /\ pc[1] # "thrown"
    /\ pc[1] \in {"idle", "done"} \cup HandlerLabels
    /\ Len(Calls) <= CallLimit

\* A command that ended although the outer catch's own apology failed.
C2_Witness ==
    /\ Finished
    /\ OuterCatchRan
    /\ Calls[Len(Calls)].op \in {"reply", "editReply"}
    /\ Calls[Len(Calls)].arg.content = GenericApology
    /\ ~Calls[Len(Calls)].ok

HandlerApology ==
    IF Command = "ai" THEN GenerateApology ELSE ModeApology

HandlerErrorLine ==
    IF Command = "ai" THEN Lit("Error generating AI response:")
    ELSE Lit("Error updating AI mode:")

\* C3 as claimed: after a store failure in the ask or mode flow (nothing else
\* failing) the error reaches the outer catch and the user sees the generic
\* apology.
C3_Original ==
    (Finished /\ Command \in {"ai", "aimode"} /\ StoreFailed /\ ~SendFailed)
        => /\ OuterCatchRan
           /\ \/ ShowsLast("reply", GenericApology)
              \/ ShowsLast("editReply", GenericApology)

\* C3 amended: a store failure in the ask or mode flow is caught by the
\* handler's own catch, which logs it and sends the handler's apology (ask:
\* an edit of the deferred reply; mode: an ephemeral reply); that is what
\* the user sees when no send fails.  The outer catch runs, and the generic
\* apology is sent, only if the handler's apology itself failed.
C3_HandlerCatches ==
    (Command \in {"ai", "aimode"} /\ StoreFailed) =>
        /\ \A k \in 1..Len(Calls) :
             (Calls[k].op \in StoreOps /\ ~Calls[k].ok) =>
                /\ k + 1 <= Len(Calls) =>
                     Calls[k + 1].op = "console.error" /\ Calls[k + 1].arg = HandlerErrorLine
                /\ k + 2 <= Len(Calls) =>
                     /\ Calls[k + 2].op = (IF Command = "ai" THEN "editReply" ELSE "reply")
                     /\ Calls[k + 2].arg.content = HandlerApology
                     /\ Command = "aimode" => Calls[k + 2].arg.flags = Ephemeral
        /\ OuterCatchRan =>
             Has(LAMBDA e : e.op \in SendOps /\ e.arg.content = HandlerApology /\ ~e.ok)
        /\ (Finished /\ ~SendFailed) =>
             /\ ~OuterCatchRan
             /\ ShowsLast(IF Command = "ai" THEN "editReply" ELSE "reply", HandlerApology)

\* A mode command whose settings write failed and which answered with its
\* own apology.
C3_Witness ==
    /\ Finished
    /\ Command = "aimode"
    /\ Has(LAMBDA e : e.op = "createOrUpdateSettings" /\ ~e.ok)
    /\ ShowsLast("reply", ModeApology)

\* C4: when the generation backend fails, the handler's catch logs it and
\* edits the deferred reply with the "error generating a response" apology;
\* the command appends no assistant message (the prompt is the one message
\* it wrote) and leaves the stats record as it was; and when that edit gets
\* through, the outer catch does not run and the command ends there.
C4_BackendFailure ==
    \A k \in 1..Len(Calls) :
        (Calls[k].op = "generateAIResponse" /\ ~Calls[k].ok) =>
            /\ k + 1 <= Len(Calls) =>
                 Calls[k + 1].op = "console.error"
                 /\ Calls[k + 1].arg = Lit("Error generating AI response:")
            /\ k + 2 <= Len(Calls) =>
                 /\ Calls[k + 2].op = "editReply"
                 /\ Calls[k + 2].arg.content = GenerateApology
                 /\ Calls[k + 2].ok => (Finished /\ Len(Calls) = k + 2 /\ ~OuterCatchRan)
            /\ Len(messages) = start[1].nMessages + 1
            /\ messages[Len(messages)].role = "user"
            /\ \A n \in 1..Len(Calls) :
                 Calls[n].op = "createMessage" => Calls[n].arg.role = "user"
            /\ stats = start[1].stats

\* An ask whose backend call failed and whose apology got through.
C4_Witness ==
    /\ Finished
    /\ BackendFailed
    /\ ShowsLast("editReply", GenerateApology)
    /\ ~SendFailed

\* The counters before the command, a missing record read as zero.
CountBefore(field) ==
    IF start[1].stats = <<>> THEN 0 ELSE start[1].stats[1][field]

AskSucceeded ==
    /\ Finished
    /\ Calls # <<>>
    /\ Calls[Len(Calls)].op = "updateBotStats"
    /\ Calls[Len(Calls)].ok

\* C5 as claimed: a successful ask cycle leaves both counters one above
\* their values before it (a missing record counting as zero).
C5_Original ==
    AskSucceeded =>
        /\ stats # <<>>
        /\ stats[1].totalMessages = CountBefore("totalMessages") + 1
        /\ stats[1].apiCalls = CountBefore("apiCalls") + 1

\* The place of a call in the ask flow.
Stage(e) ==
    CASE e.op = "deferReply" -> 1
      [] e.op = "getUserByDiscordId" -> 2
      [] e.op = "createUser" -> 3
      [] e.op = "getConversationByChannelAndUser" -> 4
      [] e.op = "createConversation" -> 5
      [] e.op = "createMessage" -> IF e.arg.role = "user" THEN 6 ELSE 10
      [] e.op = "getMessagesByConversation" -> 7
      [] e.op = "getSettingsByGuildId" -> 8
      [] e.op = "generateAIResponse" -> 9
      [] e.op = "editReply" -> 11
      [] e.op = "followUp" -> 12
      [] e.op = "getBotStats" -> 13
      [] e.op = "updateBotStats" -> 14
      [] OTHER -> 0

\* The calls of the handler's try block: those before the first catch.
FirstCatch ==
    IF Has(LAMBDA e : e.op = "console.error")
    THEN CHOOSE k \in 1..Len(Calls) :
            /\ Calls[k].op = "console.error"
            /\ \A j \in 1..(k - 1) : Calls[j].op # "console.error"
    ELSE Len(Calls) + 1

MainCalls == SubSeq(Calls, 1, FirstCatch - 1)

\* Creating the user and the conversation happens only when they are missing;
\* follow-ups only when the response has more than one chunk.
OptionalStages == {3, 5, 12}

Follows(a, b) ==
    \/ b = a + 1
    \/ b = a + 2 /\ (a + 1) \in OptionalStages
    \/ b = a /\ a \in {12, 13}

\* C6 as claimed: the stats are incremented before the deferred reply is
\* edited with the response.
C6_Original ==
    LET main == MainCalls
    IN  \A k \in 1..Len(main) :
            main[k].op = "editReply" =>
                \E j \in 1..(k - 1) : main[j].op = "updateBotStats"

\* C6 amended: the calls of an ask command come in this order: defer reply,
\* get user (create it if missing), get conversation (create it if
\* missing), store the prompt, read the history, read the guild settings,
\* call the backend, store the response, edit the deferred reply, send the
\* follow-ups, read the stats (twice) and write them; a call is made only
\* after the one before it succeeded.  So the reply is edited with the
\* response before the stats are updated.
C6_CallOrder ==
    LET main == MainCalls
    IN  /\ main # <<>> => Stage(main[1]) = 1
        /\ \A k \in 1..(Len(main) - 1) :
             /\ main[k].ok
             /\ Follows(Stage(main[k]), Stage(main[k + 1]))
        /\ \A k \in 1..Len(main) :
             main[k].op = "updateBotStats" =>
                \E j \in 1..(k - 1) : main[j].op = "editReply" /\ main[j].ok

\* An ask that went through all of it, follow-ups included.
C6_Witness ==
    /\ AskSucceeded
    /\ Has(LAMBDA e : e.op = "createUser")
    /\ Has(LAMBDA e : e.op = "createConversation")
    /\ Has(LAMBDA e : e.op = "followUp")

\* The command is the first of a user the store has never seen (whose
\* conversation cannot have messages then), and the backend was called.
FirstAskCalled(e) ==
    /\ e.op = "generateAIResponse"
    /\ Has(LAMBDA c : c.op = "createUser" /\ c.ok)
    /\ Has(LAMBDA c : c.op = "createConversation" /\ c.ok)

\* C7 as claimed: the first ask of a never-seen user calls the backend with
\* the prompt and an empty history.
C7_Original ==
    \A k \in 1..Len(Calls) :
        FirstAskCalled(Calls[k]) =>
            /\ Calls[k].arg.prompt = prompt(1)
            /\ Calls[k].arg.history = <<>>

\* C7 amended: the first ask of a never-seen user calls the backend with the
\* prompt and a history of exactly one message: the prompt itself, which
\* the handler has just stored with role user.
C7_FirstAskHistory ==
    \A k \in 1..Len(Calls) :
        FirstAskCalled(Calls[k]) =>
            /\ Calls[k].arg.prompt = prompt(1)
            /\ Len(Calls[k].arg.history) = 1
            /\ Calls[k].arg.history[1].role = "user"
            /\ Calls[k].arg.history[1].content = prompt(1)
            /\ Calls[k].arg.history[1] = messages[start[1].nMessages + 1]

\* Bob's first ask, in a store that already holds alice's conversation.
C7_Witness ==
    /\ Has(LAMBDA e : FirstAskCalled(e) /\ e.ok)
    /\ interaction[1].user = Bob
    /\ start[1].nMessages > 0

\* The messages of the command's conversation once its prompt is stored.
ConversationThen ==
    SelectSeq(SubSeq(messages, 1, start[1].nMessages + 1),
              LAMBDA m : m.conversationId = local[1].conversation[1].id)

\* C8: the history given to the backend is the last min(10, n) messages of
\* the conversation, oldest first, n counting the prompt just stored; its
\* last element is that prompt.
C8_HistoryWindow ==
    \A k \in 1..Len(Calls) :
        Calls[k].op = "generateAIResponse" =>
            LET h == Calls[k].arg.history
                n == Len(ConversationThen)
            IN  /\ Len(h) = (IF n < 10 THEN n ELSE 10)
                /\ \A j \in 1..Len(h) : h[j] = ConversationThen[n - Len(h) + j]
                /\ \A j \in 1..(Len(h) - 1) : h[j].id < h[j + 1].id
                /\ h # <<>>
                /\ h[Len(h)].role = "user"
                /\ h[Len(h)].content = prompt(1)
                /\ h[Len(h)].id = start[1].nMessages + 1

\* A backend call for a conversation of more than ten messages.
C8_Witness ==
    /\ Has(LAMBDA e : e.op = "generateAIResponse" /\ Len(e.arg.history) = 10)
    /\ Len(ConversationThen) > 10

\* An ask that delivered a response longer than 1900 without a newline, with
\* nothing failing up to the last follow-up.
LongDelivered ==
    /\ pc[1] \in {"ai_readTotalMessages", "ai_readApiCalls", "ai_updateStats"}
          \/ AskSucceeded
    /\ length(local[1].response) > 1900
    /\ indexOf(local[1].response, "\n") = -1

Contents(events) == [k \in 1..Len(events) |-> events[k].arg.content]

RECURSIVE joined(_)
joined(texts) == IF texts = <<>> THEN <<>> ELSE concat(Head(texts), joined(Tail(texts)))

CeilDiv(a, b) == (a + b - 1) \div b

HasWhitespace(t) == \E k \in 1..Len(t) : IsWhitespace(t[k].ch)

\* C9 as claimed: a response of n > 1900 characters without a newline is
\* delivered as its first 1900 characters in the edit and then exactly
\* ceil(n/1900) - 1 follow-ups that cover the rest.
C9_Original ==
    LongDelivered =>
        LET sent == Contents(Delivered)
            n == length(local[1].response)
        IN  /\ sent[1] = substring(local[1].response, 0, 1900)
            /\ Len(sent) - 1 = CeilDiv(n, 1900) - 1
            /\ joined(sent) = local[1].response

\* C9 amended: a response of n > 1900 characters without a newline is cut at
\* every 1900 characters; the edit carries the first 1900, the follow-ups
\* carry the following pieces in order, and the last piece (the 1 to 1900
\* characters after the last cut) is sent with the whitespace at its ends
\* trimmed, and not sent at all when it is only whitespace.  When the
\* response holds no whitespace this is exactly ceil(n/1900) - 1 follow-ups
\* that cover the rest.
C9_LongResponse ==
    LongDelivered =>
        LET sent == Contents(Delivered)
            r == local[1].response
            n == length(r)
            cuts == CeilDiv(n, 1900) - 1
            rest == trim(substring(r, 1900 * cuts, n))
        IN  /\ sent[1] = substring(r, 0, 1900)
            /\ Delivered[1].op = "editReply"
            /\ \A k \in 2..Len(sent) : Delivered[k].op = "followUp"
            /\ \A k \in 1..cuts : sent[k] = substring(r, 1900 * (k - 1), 1900 * k)
            /\ Len(sent) = (IF rest = <<>> THEN cuts ELSE cuts + 1)
            /\ rest # <<>> => sent[cuts + 1] = rest
            /\ ~HasWhitespace(r) => (Len(sent) - 1 = cuts /\ joined(sent) = r)

\* The 5000-character response delivered in an edit and two follow-ups.
C9_Witness ==
    /\ AskSucceeded
    /\ length(local[1].response) = 5000
    /\ Len(Delivered) = 3

\* C10: for a non-empty text and a limit of at least 1, splitMessage returns
\* at least one segment, and every segment is non-empty and no longer than
\* the limit.
C10_Segments ==
    (split.called /\ split.text # <<>> /\ split.maxLength >= 1) =>
        /\ Len(split.chunks) >= 1
        /\ \A k \in 1..Len(split.chunks) :
             /\ split.chunks[k] # <<>>
             /\ length(split.chunks[k]) >= 1
             /\ length(split.chunks[k]) <= split.maxLength

\* A text of only line breaks, longer than the limit, for which the loop
\* yields nothing and the fallback segment is returned.
C10_Witness ==
    /\ split.called
    /\ length(split.text) > split.maxLength
    /\ trim(split.text) = <<>>
    /\ \A k \in 1..Len(split.text) : split.text[k].ch = "\n"
    /\ Len(split.chunks) = 1

\* The segments put together again with a line break between neighbours.
RECURSIVE rejoined(_)
rejoined(texts) ==
    IF texts = <<>> THEN <<>>
    ELSE IF Len(texts) = 1 THEN texts[1]
    ELSE concat(concat(Head(texts), NL), rejoined(Tail(texts)))

\* A string with every whitespace character deleted.
RECURSIVE nonWhitespace(_)
nonWhitespace(t) ==
    IF t = <<>> THEN <<>>
    ELSE IF IsWhitespace(Head(t).ch) THEN nonWhitespace(Tail(t))
    ELSE concat(<<Head(t)>>, nonWhitespace(Tail(t)))

\* C11: for every text and every limit of at least 1, the segments of
\* splitMessage rejoined with line breaks hold all the non-whitespace
\* content of the text in its order: with every whitespace character
\* deleted, the rejoined segments and the text are the same string.
C11_Content ==
    (split.called /\ split.maxLength >= 1) =>
        nonWhitespace(rejoined(split.chunks)) = nonWhitespace(split.text)

\* A text longer than the limit with a line flushed from the buffer, a line
\* cut by length, and whitespace between its letters.
C11_Witness ==
    /\ split.called
    /\ length(split.text) > split.maxLength
    /\ Len(split.chunks) >= 3
    /\ Len(split_lines(split.text)) >= 2
    /\ \E k \in 1..Len(split_lines(split.text)) :
          length(split_lines(split.text)[k]) > split.maxLength
    /\ HasWhitespace(trim(split.text))
    /\ length(nonWhitespace(split.text)) >= 3

\* The guild of the command in slot 1, its settings when the command was
\* received and its settings now.
Guild == guildIdOf(interaction[1])

SettingsThen == start[1].settings[Guild]

SettingsNow == settings[Guild]

\* No call of the command has failed.
NothingFailed == \A k \in 1..Len(Calls) : Calls[k].ok

Saved == Has(LAMBDA e : e.op = "createOrUpdateSettings" /\ e.ok)

\* C12: a mode command on a guild that has a settings record leaves every
\* field of the persisted record as it was except slashCommandMode, which
\* is the requested mode once the record is written; the records of the
\* other guilds are untouched.
C12_ModeFrame ==
    (Command = "aimode" /\ SettingsThen # <<>>) =>
        /\ SettingsNow # <<>>
        /\ DOMAIN SettingsNow[1] = DOMAIN SettingsThen[1]
        /\ \A f \in DOMAIN SettingsNow[1] \ {"slashCommandMode"} :
              SettingsNow[1][f] = SettingsThen[1][f]
        /\ SettingsNow[1].slashCommandMode =
              (IF Saved THEN mode(1) ELSE SettingsThen[1].slashCommandMode)
        /\ \A g \in GuildIds \ {Guild} : settings[g] = start[1].settings[g]

\* A finished mode command that changed the mode of the hand-set record.
C12_Witness ==
    /\ Command = "aimode"
    /\ Finished
    /\ NothingFailed
    /\ SettingsThen = <<CustomSettings>>
    /\ SettingsNow[1].slashCommandMode = "required"
    /\ SettingsNow[1].personality = "sarcastic"
    /\ SettingsNow[1].activatedChannels = <<"c2">>

\* C13: a mode command with mode m on a guild without settings, when no
\* call fails, creates the record with slashCommandMode = m and the
\* defaults in every other field, and issues exactly one reply: immediate
\* (no deferral), ephemeral, with the text that describes m and no other
\* mode.
C13_ModeCreates ==
    (/\ Command = "aimode"
     /\ interaction[1].options.mode # <<>>
     /\ SettingsThen = <<>>
     /\ Finished
     /\ NothingFailed) =>
        /\ SettingsNow =
              <<[guildId |-> Guild, prefix |-> "", responseLength |-> "medium",
                 personality |-> "helpful", codeFormat |-> TRUE,
                 allowedChannels |-> <<>>, channelMode |-> "all",
                 slashCommandMode |-> mode(1), activatedChannels |-> <<>>]>>
        /\ LET sends == SelectSeq(Calls, LAMBDA e : e.op \in SendOps)
           IN  /\ Len(sends) = 1
               /\ sends[1].op = "reply"
               /\ sends[1].arg.flags = <<64>>
               /\ sends[1].arg.content = Lit(modeDescription(mode(1)))
               /\ \A m \in Modes \ {mode(1)} :
                     sends[1].arg.content # Lit(modeDescription(m))

\* /aimode mode="required" on a guild without settings, answered.
C13_Witness ==
    /\ Command = "aimode"
    /\ Finished
    /\ NothingFailed
    /\ SettingsThen = <<>>
    /\ interaction[1].options.mode = <<"required">>
    /\ SettingsNow # <<>>
    /\ ShowsLast("reply", Lit("The bot will ONLY respond when summoned via /ai command"))

Count(list, x) == Len(SelectSeq(list, LAMBDA y : y = x))

NoDuplicates(list) == \A k \in 1..Len(list) : Count(list, list[k]) = 1

\* C14: after a successful activate command the guild's record has
\* slashCommandMode 'activated' and an activated-channel list that holds the
\* command's channel exactly once, holds every channel it held before and
\* holds no channel twice; a second activate in a channel already activated
\* leaves the record exactly as the first left it.
C14_ActivateOnce ==
    (Command = "activate" /\ Finished /\ NothingFailed) =>
        LET c == channelIdOf(interaction[1])
            was == IF SettingsThen = <<>> THEN <<>> ELSE SettingsThen[1].activatedChannels
        IN  /\ SettingsNow # <<>>
            /\ SettingsNow[1].slashCommandMode = "activated"
            /\ Count(SettingsNow[1].activatedChannels, c) = 1
            /\ NoDuplicates(SettingsNow[1].activatedChannels)
            /\ \A k \in 1..Len(was) : Count(SettingsNow[1].activatedChannels, was[k]) = 1
            /\ \A k \in 1..Len(SettingsNow[1].activatedChannels) :
                  SettingsNow[1].activatedChannels[k] \in {c} \cup {was[j] : j \in 1..Len(was)}
            /\ (/\ SettingsThen # <<>>
                /\ Count(was, c) = 1
                /\ SettingsThen[1].slashCommandMode = "activated")
               => SettingsNow = SettingsThen

\* The second of two activate commands in channel c1 of a guild whose list
\* already held c2: the list is c2, c1 before and after it.
C14_Witness ==
    /\ Command = "activate"
    /\ Finished
    /\ NothingFailed
    /\ ncmds = 2
    /\ channelIdOf(interaction[1]) = "c1"
    /\ SettingsThen # <<>>
    /\ SettingsThen[1].activatedChannels = <<"c2", "c1">>
    /\ SettingsThen[1].slashCommandMode = "activated"
    /\ SettingsNow = SettingsThen

\* C15: a deactivate command on a guild without settings writes nothing to
\* the store (no settings record exists afterwards, no createOrUpdateSettings
\* is called, every other record is as it was), and once the lookup has
\* returned its next call is the ephemeral reply 'No settings found for this
\* server.'.
C15_DeactivateNone ==
    (Command = "deactivate" /\ SettingsThen = <<>>) =>
        /\ settings = start[1].settings
        /\ SettingsNow = <<>>
        /\ Len(users) = start[1].nUsers
        /\ Len(conversations) = start[1].nConversations
        /\ Len(messages) = start[1].nMessages
        /\ stats = start[1].stats
        /\ ~Has(LAMBDA e : e.op \in
                   {"createOrUpdateSettings", "createUser", "createConversation",
                    "createMessage", "updateBotStats"})
        /\ (Len(Calls) >= 2 /\ Calls[1].ok) =>
              /\ Calls[2].op = "reply"
              /\ Calls[2].arg = [content |-> NoSettingsMsg, flags |-> <<64>>]
        /\ (Finished /\ NothingFailed) =>
              /\ Len(Calls) = 2
              /\ ShowsLast("reply", NoSettingsMsg)

\* A deactivate command on a guild without settings, answered.
C15_Witness ==
    /\ Command = "deactivate"
    /\ SettingsThen = <<>>
    /\ Finished
    /\ NothingFailed
    /\ Calls[1].op = "getSettingsByGuildId"
    /\ ShowsLast("reply", NoSettingsMsg)

\* The conversations kept for the (channel, user) pair of the command in slot 1.
OwnConversations ==
    SelectSeq(conversations,
              LAMBDA c : /\ c.channelId = channelIdOf(interaction[1])
                         /\ c.userId = interaction[1].user.id)

\* C16: with ask commands handled one after another, no two conversations
\* have the same (channel, user) pair, and every message a command appends
\* goes to the one conversation of its own pair: the conversation that
\* existed for the pair when the command arrived, which is then not created
\* again, or else a conversation the command itself created.  Commands of
\* one pair so share a conversation id, and a command of another user in
\* the same channel uses a different one.
C16_OneConversationPerPair ==
    /\ \A i, j \in 1..Len(conversations) :
          (/\ conversations[i].channelId = conversations[j].channelId
           /\ conversations[i].userId = conversations[j].userId) => i = j
    /\ \A i \in 1..Len(conversations) : conversations[i].id = i
    /\ \A k \in 1..Len(Calls) :
          (Calls[k].op = "createMessage" /\ Calls[k].ok) =>
              /\ Len(OwnConversations) = 1
              /\ Calls[k].arg.conversationId = OwnConversations[1].id
              /\ IF OwnConversations[1].id <= start[1].nConversations
                 THEN ~Has(LAMBDA e : e.op = "createConversation")
                 ELSE Has(LAMBDA e : e.op = "createConversation" /\ e.ok)
              /\ \A i \in 1..Len(conversations) :
                    (/\ conversations[i].channelId = channelIdOf(interaction[1])
                     /\ conversations[i].userId # interaction[1].user.id)
                    => conversations[i].id # Calls[k].arg.conversationId

\* After a command of alice in channel c1 has appended to the conversation
\* she already had there, a command of bob in c1 appends to a conversation
\* of his own.
C16_Witness ==
    /\ ncmds = 2
    /\ interaction[1].user.id = "u2"
    /\ channelIdOf(interaction[1]) = "c1"
    /\ Len(conversations) = 2
    /\ conversations[1].userId = "u1"
    /\ conversations[1].channelId = "c1"
    /\ Len(SelectSeq(messages, LAMBDA m : m.conversationId = 1)) > MaxPre
    /\ Has(LAMBDA e : e.op = "createMessage" /\ e.ok /\ e.arg.conversationId = 2)

\* C17 as claimed: in every state each conversation's messages, in creation
\* order, alternate between 'user' and 'assistant', starting with 'user'.
C17_Original ==
    \A c \in 1..Len(conversations) :
        LET own == getMessagesByConversation(conversations[c].id)
        IN  \A k \in 1..Len(own) :
              own[k].role = (IF k % 2 = 1 THEN "user" ELSE "assistant")

\* C20 as claimed: an ask command that ends with its assistant message
\* persisted and its first chunk delivered in the edit of the deferred
\* reply still shows that first chunk as its primary reply.
C20_Original ==
    (/\ Command = "ai"
     /\ Finished
     /\ Has(LAMBDA e : e.op = "createMessage" /\ e.ok /\ e.arg.role = "assistant")
     /\ Has(LAMBDA e : /\ e.op = "editReply"
                       /\ e.ok
                       /\ e.arg.content = splitMessage(local[1].response, 1900)[1]))
    => ShowsLast("editReply", splitMessage(local[1].response, 1900)[1])

\* C18 as claimed: however ask commands in flight together interleave, the
\* store never holds two User records with one platform id nor two
\* Conversation records with one (channel id, user id) pair.
C18_Original ==
    /\ \A i, j \in 1..Len(users) :
          users[i].discordId = users[j].discordId => i = j
    /\ \A i, j \in 1..Len(conversations) :
          (/\ conversations[i].channelId = conversations[j].channelId
           /\ conversations[i].userId = conversations[j].userId) => i = j

\* The successful settings write a step makes, if it makes one: the slot
\* whose log grows by a createOrUpdateSettings that succeeded.
Wrote(p) ==
    /\ Len(log'[p]) = Len(log[p]) + 1
    /\ log'[p][Len(log'[p])].op = "createOrUpdateSettings"
    /\ log'[p][Len(log'[p])].ok

\* C19: settings writes of commands in flight together are last-write-wins.
\* A command's write replaces the guild's persisted record by the record the
\* command made from its own earlier read: every field the command does not
\* change gets the value the command read (or the default, when it read no
\* record), whatever was persisted since.  There is an interleaving of two
\* activate commands in different channels in which both reply with success
\* and the final record lacks the channel of one of them.
C19_LastWriteWins ==
    [][\A p \in Slots :
          Wrote(p) =>
              LET g == guildIdOf(interaction[p])
                  payload == log'[p][Len(log'[p])].arg
                  read == local[p].settings
                  changed == IF interaction[p].commandName = "aimode"
                             THEN {"slashCommandMode"}
                             ELSE {"slashCommandMode", "activatedChannels"}
              IN  /\ settings'[g] = <<payload>>
                  /\ \A f \in DOMAIN payload \ changed :
                        payload[f] = (IF read = <<>> THEN SettingsDefaults(g)[f]
                                      ELSE read[1][f])
                  /\ (read # <<>> /\ interaction[p].commandName = "aimode") =>
                        payload.activatedChannels = read[1].activatedChannels]_vars

\* Two activate commands in flight together on a guild without settings, one
\* in c1 and one in c2, have both replied with success, and the persisted
\* list lacks c1 or lacks c2.
C19_Witness ==
    /\ pc[1] = "done"
    /\ pc[2] = "done"
    /\ interaction[1].commandName = "activate"
    /\ interaction[2].commandName = "activate"
    /\ interaction[1].channel = <<"c1">>
    /\ interaction[2].channel = <<"c2">>
    /\ \A p \in {1, 2} :
          /\ \A k \in 1..Len(log[p]) : log[p][k].ok
          /\ log[p] # <<>>
          /\ log[p][Len(log[p])].op = "reply"
          /\ log[p][Len(log[p])].arg.content = ActivatedMsg
    /\ start[1].settings["g1"] = <<>>
    /\ start[2].settings["g1"] = <<>>
    /\ settings["g1"] # <<>>
    /\ \/ ~includes(settings["g1"][1].activatedChannels, "c1")
       \/ ~includes(settings["g1"][1].activatedChannels, "c2")

====
